---------------------------- MODULE Spec2Model ----------------------------
(***************************************************************************)
(* Model of the calories-analytics Streamlit programs.                     *)
(*                                                                         *)
(*   app_gemini_only.py  the structured-extraction pipeline: the Analyze   *)
(*                       handler of main(), estimate_nutrition_with_gemini *)
(*                       and the Pydantic validation of the response       *)
(*                       (specification Spec)                              *)
(*   app.py              the two-step variant: the "Estimate calories"     *)
(*                       handler (specification SpecApp)                   *)
(*                                                                         *)
(* Each handler is modelled statement by statement: pc is the position of  *)
(* the single script thread, and every call that can raise is a step that  *)
(* either succeeds or raises.                                              *)
(***************************************************************************)
EXTENDS Integers, Sequences, FiniteSets, TLC

VARIABLES
    GEMINI_API_KEY,          \* module global: the key read at import time
    CALORIE_NINJAS_API_KEY,  \* module global of app.py
    client,                  \* module global: "Client" or "None"
    uploaded_file,           \* the file_uploader widget's value
    pc,                      \* position of the script thread
    caller,                  \* who invoked estimate: "main" or "direct"
    tmp_path,                \* local of the handler (NoPath: not bound)
    fs,                      \* temporary files that exist on disk
    created,                 \* temporary files created by the current action
    nextId,                  \* names the next temporary file
    uploads,                 \* client.files.upload calls of the current action
    generations,             \* generate_content calls of the current action
    uploadOk,                \* the upload call of the current action returned
    networkUsed,             \* a network call has been made since start-up
    response,                \* response.text of the generation call
    estimate,                \* the NutritionEstimate returned (or NoEstimate)
    errKind,                 \* class of the exception raised in the action
    message,                 \* what the page shows after the action
    escaped                  \* an exception propagated out of the handler

vars == <<GEMINI_API_KEY, CALORIE_NINJAS_API_KEY, client, uploaded_file, pc,
          caller, tmp_path, fs, created, nextId, uploads, generations,
          uploadOk, networkUsed, response, estimate, errKind, message,
          escaped>>

(***************************************************************************)
(* Bounds of the model.                                                    *)
(***************************************************************************)
MaxItems == 2     \* longest items array the provider returns
MaxFiles == 2     \* temporary files created in one run of the model

(***************************************************************************)
(* JSON values of the provider's response body.  Every value carries all   *)
(* three fields so that values of different JSON types can be compared.    *)
(***************************************************************************)
Num(n)  == [t |-> "num",  n |-> n, s |-> ""]
Str(s)  == [t |-> "str",  n |-> 0, s |-> s]
Bool(b) == [t |-> "bool", n |-> IF b THEN 1 ELSE 0, s |-> ""]
Null    == [t |-> "null", n |-> 0, s |-> ""]
Absent  == [t |-> "absent", n |-> 0, s |-> ""]    \* the key is not in the object


(***************************************************************************)
(* The Pydantic models FoodItem and NutritionEstimate, and what            *)
(* NutritionEstimate.model_validate_json does with a response text.        *)
(* Validation runs in Pydantic's default (lax) mode on JSON input: a float *)
(* field takes a JSON number, a JSON boolean or a string that parses as a  *)
(* number; a str field takes a JSON string only; an Optional[str] field    *)
(* takes a string or null and defaults to None when its key is absent.     *)
(* No field declares a constraint (ge, le): any number validates.          *)
(***************************************************************************)
FloatFields == {"quantity_g", "calories_kcal", "protein_g", "carbs_g", "fat_g"}
TotalFields == {"total_calories_kcal", "total_protein_g", "total_carbs_g",
                "total_fat_g"}

\* The strings of the model that parse as a number, with their value.
StrFloat == ("2" :> 2) @@ ("-1" :> (0 - 1))

float_ok_defaulting(v) ==
    \/ v.t \in {"num", "bool", "absent"}
    \/ v.t = "str" /\ v.s \in DOMAIN StrFloat

float_ok(v) ==
    \/ v.t \in {"num", "bool"}
    \/ v.t = "str" /\ v.s \in DOMAIN StrFloat

float_of(v) == IF v.t = "str" THEN StrFloat[v.s] ELSE v.n

str_ok(v) == v.t = "str"

optional_str_ok(v) == v.t \in {"absent", "null", "str"}

\* Optional[str]: some = FALSE is None.
NoneStr == [some |-> FALSE, s |-> ""]
optional_str_of(v) == IF v.t = "str" THEN [some |-> TRUE, s |-> v.s] ELSE NoneStr

FoodItem_ok(o) ==
    /\ str_ok(o.name)
    /\ \A f \in FloatFields : float_ok(o[f])
    /\ optional_str_ok(o.reasoning_short)

FoodItem(o) ==
    [name            |-> o.name.s,
     quantity_g      |-> float_of(o.quantity_g),
     calories_kcal   |-> float_of(o.calories_kcal),
     protein_g       |-> float_of(o.protein_g),
     carbs_g         |-> float_of(o.carbs_g),
     fat_g           |-> float_of(o.fat_g),
     reasoning_short |-> optional_str_of(o.reasoning_short)]

RECURSIVE SumField(_, _)
SumField(items, f) ==
    IF items = <<>> THEN 0 ELSE Head(items)[f] + SumField(Tail(items), f)

NutritionEstimate_ok(b) ==
    /\ b.items.t = "arr"
    /\ \A i \in 1..Len(b.items.elems) : FoodItem_ok(b.items.elems[i])
    /\ \A f \in TotalFields : float_ok(b[f])
    /\ optional_str_ok(b.notes)

NutritionEstimate_recomputed(b) ==
    LET its == [i \in 1..Len(b.items.elems) |-> FoodItem(b.items.elems[i])]
    IN  [ok                  |-> TRUE,
         items               |-> its,
         total_calories_kcal |-> SumField(its, "calories_kcal"),
         total_protein_g     |-> SumField(its, "protein_g"),
         total_carbs_g       |-> SumField(its, "carbs_g"),
         total_fat_g         |-> SumField(its, "fat_g"),
         notes               |-> optional_str_of(b.notes)]

NutritionEstimate(b) ==
    [ok                  |-> TRUE,
     items               |-> [i \in 1..Len(b.items.elems) |->
                                  FoodItem(b.items.elems[i])],
     total_calories_kcal |-> float_of(b.total_calories_kcal),
     total_protein_g     |-> float_of(b.total_protein_g),
     total_carbs_g       |-> float_of(b.total_carbs_g),
     total_fat_g         |-> float_of(b.total_fat_g),
     notes               |-> optional_str_of(b.notes)]

\* No NutritionEstimate object (ok = FALSE).
NoEstimate ==
    [ok |-> FALSE, items |-> <<>>, total_calories_kcal |-> 0,
     total_protein_g |-> 0, total_carbs_g |-> 0, total_fat_g |-> 0,
     notes |-> NoneStr]

\* response.text: None ("none"), "" ("empty"), a text that is not JSON
\* ("text"), or a JSON object ("json", with its body).
model_validate_json(text) ==
    IF text.kind = "json" /\ NutritionEstimate_ok(text.body)
    THEN NutritionEstimate(text.body)
    ELSE NoEstimate

(***************************************************************************)
(* The provider's responses the model draws from.                          *)
(***************************************************************************)
Egg ==
    [name |-> Str("egg"), quantity_g |-> Num(100), calories_kcal |-> Num(155),
     protein_g |-> Num(13), carbs_g |-> Num(1), fat_g |-> Num(11),
     reasoning_short |-> Absent]

Toast ==
    [name |-> Str("toast"), quantity_g |-> Num(30), calories_kcal |-> Num(80),
     protein_g |-> Num(3), carbs_g |-> Num(15), fat_g |-> Num(0),
     reasoning_short |-> Str("one slice of white bread")]

ItemPool == {Egg, Toast}

ItemSeqs == UNION {[1..k -> ItemPool] : k \in 0..MaxItems}

RECURSIVE SumJson(_, _)
SumJson(objs, f) ==
    IF objs = <<>> THEN 0 ELSE Head(objs)[f].n + SumJson(Tail(objs), f)

\* A body that conforms to NutritionEstimate.model_json_schema(); the totals
\* are the sums of the items plus `off`.
Body(objs, off, notes) ==
    [items               |-> [t |-> "arr", elems |-> objs],
     total_calories_kcal |-> Num(SumJson(objs, "calories_kcal") + off),
     total_protein_g     |-> Num(SumJson(objs, "protein_g")),
     total_carbs_g       |-> Num(SumJson(objs, "carbs_g") + off),
     total_fat_g         |-> Num(SumJson(objs, "fat_g")),
     notes               |-> notes]

ConformantBodies ==
    {Body(objs, off, notes) :
        objs \in ItemSeqs, off \in {0, 7},
        notes \in {Absent, Null, Str("assumed butter on the toast")}}

\* Values put in place of one field of a conformant body.
OddValues == {Absent, Null, Str("abc"), Str("2"), Bool(TRUE), Num(0 - 1)}

ItemKeys == FloatFields \cup {"name", "reasoning_short"}

\* The bodies whose items are the first k items of <<Egg, Toast, Egg, ...>>.
PrefixBodies ==
    {Body([i \in 1..k |-> IF i % 2 = 1 THEN Egg ELSE Toast], 0, Absent) :
        k \in 0..MaxItems}

OddBodies ==
    UNION {
        {[b EXCEPT !.items.elems[i][f] = v] :
            i \in 1..Len(b.items.elems), f \in ItemKeys, v \in OddValues}
        \cup {[b EXCEPT ![f] = v] : f \in TotalFields \cup {"notes"}, v \in OddValues}
        \cup {[b EXCEPT !.items = [t |-> v.t, elems |-> <<>>]] :
                 v \in {Absent, Null, Str("abc")}}
        : b \in PrefixBodies}

EmptyBody == Body(<<>>, 0, Absent)

Responses ==
    {[kind |-> k, body |-> EmptyBody] : k \in {"none", "empty", "text"}}
    \cup {[kind |-> "json", body |-> b] : b \in ConformantBodies \cup OddBodies}

NoResponse == [kind |-> "none", body |-> EmptyBody]

(***************************************************************************)
(* app_gemini_only.py: module globals.                                     *)
(***************************************************************************)
NoKey == "<None>"       \* the key is in neither st.secrets nor os.environ

GeminiKeys == {NoKey, "", "YOUR_GEMINI_KEY_HERE", "AIza-configured-key"}

InitClient_anyNonEmptyKey(key) ==
    IF key # NoKey /\ key # "" THEN "Client" ELSE "None"

\* if GEMINI_API_KEY and GEMINI_API_KEY != "YOUR_GEMINI_KEY_HERE": ... else None
InitClient(key) ==
    IF key # NoKey /\ key # "" /\ key # "YOUR_GEMINI_KEY_HERE"
    THEN "Client" ELSE "None"

\* st.file_uploader(..., type=["jpg", "jpeg", "png", "webp"])
AllowedTypes == {"jpg", "jpeg", "png", "webp"}

\* The extensions and sizes (in bytes) of the files a user offers.
OfferedTypes == AllowedTypes \cup {"gif"}
OfferedSizes == {0, 1}

NoFile == [present |-> FALSE, ext |-> "", size |-> 0]
NoPath == {}

\* The locals of one run of the script, and the page, start afresh.
FreshRun ==
    /\ tmp_path' = NoPath
    /\ created' = {}
    /\ uploads' = 0
    /\ generations' = 0
    /\ uploadOk' = FALSE
    /\ response' = NoResponse
    /\ estimate' = NoEstimate
    /\ errKind' = "none"

Init ==
    /\ GEMINI_API_KEY \in GeminiKeys
    /\ CALORIE_NINJAS_API_KEY = NoKey
    /\ client = InitClient(GEMINI_API_KEY)
    /\ uploaded_file = NoFile
    /\ pc = "idle"
    /\ caller = "main"
    /\ tmp_path = NoPath
    /\ fs = {}
    /\ created = {}
    /\ nextId = 1
    /\ uploads = 0
    /\ generations = 0
    /\ uploadOk = FALSE
    /\ networkUsed = FALSE
    /\ response = NoResponse
    /\ estimate = NoEstimate
    /\ errKind = "none"
    /\ message = "none"
    /\ escaped = FALSE

\* An exception of class `kind` leaves estimate_nutrition_with_gemini or a
\* statement of the try block: to the except clause of main, or to whoever
\* called the function directly.
Raise(kind) ==
    /\ errKind' = kind
    /\ pc' = IF caller = "main" THEN "except" ELSE "idle"

(***************************************************************************)
(* main(): the page without a client (lines 126-130).                      *)
(***************************************************************************)
RunMainNoClient ==
    /\ pc = "idle"
    /\ client = "None"
    /\ message' = "config_error"
    /\ caller' = "main"
    /\ FreshRun
    /\ UNCHANGED <<GEMINI_API_KEY, CALORIE_NINJAS_API_KEY, client,
                   uploaded_file, pc, fs, nextId, networkUsed, escaped>>

(***************************************************************************)
(* main(): the user picks a file in the uploader (line 133); the widget    *)
(* takes only the listed types.  The script reruns without Analyze.        *)
(***************************************************************************)
ChooseFile ==
    /\ pc = "idle"
    /\ client # "None"
    /\ \E ext \in OfferedTypes, size \in OfferedSizes :
          uploaded_file' = IF ext \in AllowedTypes
                           THEN [present |-> TRUE, ext |-> ext, size |-> size]
                           ELSE NoFile
    /\ message' = "none"
    /\ caller' = "main"
    /\ FreshRun
    /\ UNCHANGED <<GEMINI_API_KEY, CALORIE_NINJAS_API_KEY, client, pc, fs,
                   nextId, networkUsed, escaped>>

(***************************************************************************)
(* main(): the Analyze button is pressed (lines 135-151).                  *)
(***************************************************************************)
ClickAnalyze ==
    /\ pc = "idle"
    /\ client # "None"
    /\ uploaded_file # NoFile
    /\ nextId <= MaxFiles
    /\ pc' = "create"
    /\ caller' = "main"
    /\ message' = "none"
    /\ FreshRun
    /\ UNCHANGED <<GEMINI_API_KEY, CALORIE_NINJAS_API_KEY, client,
                   uploaded_file, fs, nextId, networkUsed, escaped>>

\* tempfile.NamedTemporaryFile(delete=False, suffix=...) (line 153)
CreateTemp ==
    /\ pc = "create"
    /\ \/ /\ fs' = fs \cup {nextId}
          /\ created' = created \cup {nextId}
          /\ nextId' = nextId + 1
          /\ pc' = "write"
          /\ UNCHANGED errKind
       \/ /\ Raise("OSError")
          /\ UNCHANGED <<fs, created, nextId>>
    /\ UNCHANGED <<GEMINI_API_KEY, CALORIE_NINJAS_API_KEY, client,
                   uploaded_file, caller, tmp_path, uploads, generations,
                   uploadOk, networkUsed, response, estimate, message, escaped>>

\* tmp_file.write(uploaded_file.getvalue()); tmp_path = tmp_file.name
\* (lines 154-155).  A failed write leaves the with block before tmp_path
\* is bound; the file was opened with delete=False and stays.
WriteTemp ==
    /\ pc = "write"
    /\ \/ /\ tmp_path' = created
          /\ pc' = "estimate"
          /\ UNCHANGED errKind
       \/ /\ Raise("OSError")
          /\ UNCHANGED tmp_path
    /\ UNCHANGED <<GEMINI_API_KEY, CALORIE_NINJAS_API_KEY, client,
                   uploaded_file, caller, fs, created, nextId, uploads,
                   generations, uploadOk, networkUsed, response, estimate,
                   message, escaped>>

(***************************************************************************)
(* estimate_nutrition_with_gemini(image_path) (lines 68-115).              *)
(***************************************************************************)
\* The function is called by other code than main (the module is importable).
DirectCall ==
    /\ pc = "idle"
    /\ pc' = "estimate"
    /\ caller' = "direct"
    /\ FreshRun
    /\ UNCHANGED <<GEMINI_API_KEY, CALORIE_NINJAS_API_KEY, client,
                   uploaded_file, fs, nextId, networkUsed, message, escaped>>

\* if not client: raise ValueError(...) (lines 79-80)
EstimateEnter ==
    /\ pc = "estimate"
    /\ IF client = "None"
       THEN Raise("ValueError")
       ELSE pc' = "upload" /\ UNCHANGED errKind
    /\ UNCHANGED <<GEMINI_API_KEY, CALORIE_NINJAS_API_KEY, client,
                   uploaded_file, caller, tmp_path, fs, created, nextId,
                   uploads, generations, uploadOk, networkUsed, response,
                   estimate, message, escaped>>

UploadCall_retrying ==
    /\ pc = "upload"
    /\ uploads' = uploads + 1
    /\ networkUsed' = TRUE
    /\ \/ /\ uploadOk' = TRUE
          /\ pc' = "generate"
          /\ UNCHANGED errKind
       \/ /\ IF uploads = 0
             THEN UNCHANGED <<pc, errKind>>
             ELSE Raise("ProviderError")
          /\ UNCHANGED uploadOk
    /\ UNCHANGED <<GEMINI_API_KEY, CALORIE_NINJAS_API_KEY, client,
                   uploaded_file, caller, tmp_path, fs, created, nextId,
                   generations, response, estimate, message, escaped>>

\* uploaded_file = client.files.upload(file=image_path) (line 82): the call
\* returns, or raises the SDK's error.
UploadCall ==
    /\ pc = "upload"
    /\ uploads' = uploads + 1
    /\ networkUsed' = TRUE
    /\ \/ /\ uploadOk' = TRUE
          /\ pc' = "generate"
          /\ UNCHANGED errKind
       \/ /\ Raise("ProviderError")
          /\ UNCHANGED uploadOk
    /\ UNCHANGED <<GEMINI_API_KEY, CALORIE_NINJAS_API_KEY, client,
                   uploaded_file, caller, tmp_path, fs, created, nextId,
                   generations, response, estimate, message, escaped>>

\* response = client.models.generate_content(...) (lines 105-112)
GenerateCall ==
    /\ pc = "generate"
    /\ generations' = generations + 1
    /\ networkUsed' = TRUE
    /\ \/ /\ \E r \in Responses : response' = r
          /\ pc' = "validate"
          /\ UNCHANGED errKind
       \/ /\ Raise("ProviderError")
          /\ UNCHANGED response
    /\ UNCHANGED <<GEMINI_API_KEY, CALORIE_NINJAS_API_KEY, client,
                   uploaded_file, caller, tmp_path, fs, created, nextId,
                   uploads, uploadOk, estimate, message, escaped>>

\* return NutritionEstimate.model_validate_json(response.text) (line 115):
\* the object, or pydantic's ValidationError.
Validate ==
    /\ pc = "validate"
    /\ LET e == model_validate_json(response)
       IN  IF e.ok
           THEN /\ estimate' = e
                /\ pc' = IF caller = "main" THEN "render" ELSE "idle"
                /\ UNCHANGED errKind
           ELSE /\ Raise("ValidationError")
                /\ UNCHANGED estimate
    /\ UNCHANGED <<GEMINI_API_KEY, CALORIE_NINJAS_API_KEY, client,
                   uploaded_file, caller, tmp_path, fs, created, nextId,
                   uploads, generations, uploadOk, networkUsed, response,
                   message, escaped>>

(***************************************************************************)
(* main(): display, except and finally (lines 163-199).                    *)
(***************************************************************************)
Render ==
    /\ pc = "render"
    /\ \/ /\ message' = IF estimate.items = <<>>
                        THEN "success: no items detected" ELSE "success"
          /\ pc' = "finally"
          /\ UNCHANGED errKind
       \/ /\ Raise("StreamlitError")
          /\ UNCHANGED message
    /\ UNCHANGED <<GEMINI_API_KEY, CALORIE_NINJAS_API_KEY, client,
                   uploaded_file, caller, tmp_path, fs, created, nextId,
                   uploads, generations, uploadOk, networkUsed, response,
                   estimate, escaped>>

\* The classes the model raises all derive from Exception.
Catches_onlyValueError(kind) == kind = "ValueError"

\* except Exception as e (line 193)
Catches(kind) ==
    kind \in {"OSError", "ValueError", "ProviderError", "ValidationError",
              "StreamlitError", "RuntimeError"}

\* st.error(f"An error occurred: {e}") (line 194)
Except ==
    /\ pc = "except"
    /\ IF Catches(errKind)
       THEN message' = "error" /\ UNCHANGED escaped
       ELSE escaped' = TRUE /\ UNCHANGED message
    /\ pc' = "finally"
    /\ UNCHANGED <<GEMINI_API_KEY, CALORIE_NINJAS_API_KEY, client,
                   uploaded_file, caller, tmp_path, fs, created, nextId,
                   uploads, generations, uploadOk, networkUsed, response,
                   estimate, errKind>>

\* if 'tmp_path' in locals() and os.path.exists(tmp_path): os.remove(tmp_path)
\* (lines 195-199)
Finally ==
    /\ pc = "finally"
    /\ fs' = IF tmp_path # NoPath /\ tmp_path \subseteq fs
             THEN fs \ tmp_path ELSE fs
    /\ pc' = "idle"
    /\ UNCHANGED <<GEMINI_API_KEY, CALORIE_NINJAS_API_KEY, client,
                   uploaded_file, caller, tmp_path, created, nextId, uploads,
                   generations, uploadOk, networkUsed, response, estimate,
                   errKind, message, escaped>>

Next ==
    \/ RunMainNoClient
    \/ ChooseFile
    \/ ClickAnalyze
    \/ CreateTemp
    \/ WriteTemp
    \/ DirectCall
    \/ EstimateEnter
    \/ UploadCall
    \/ GenerateCall
    \/ Validate
    \/ Render
    \/ Except
    \/ Finally

Spec == Init /\ [][Next]_vars

(***************************************************************************)
(* app.py: the two-step variant (Gemini, then CalorieNinjas).  The script  *)
(* shares no state with app_gemini_only.py; it is a specification of its   *)
(* own, SpecApp, over the same variables.                                  *)
(***************************************************************************)
AppGeminiKeys == {NoKey, "", "AIza-configured-key"}
AppNinjasKeys == {NoKey, "", "ninjas-configured-key"}

\* client = None; if GEMINI_API_KEY: client = genai.Client(...) (lines 21-23)
AppInitClient(key) == IF key # NoKey /\ key # "" THEN "Client" ELSE "None"

\* st.file_uploader(..., type=["png", "jpg", "jpeg"]) (lines 88-91)
AppAllowedTypes == {"png", "jpg", "jpeg"}
AppOfferedTypes == AppAllowedTypes \cup {"gif"}

\* response.text of generate_content in build_food_query_from_image: None,
\* "", white space only, or a sentence.
AppResponses ==
    {[kind |-> k, body |-> EmptyBody] : k \in {"none", "empty", "blank", "text"}}

\* query = (response.text or "").strip().replace("\n", " ") (line 53):
\* whether the query is empty.
QueryIsEmpty(text) == text.kind \in {"none", "empty", "blank"}

InitApp ==
    /\ GEMINI_API_KEY \in AppGeminiKeys
    /\ CALORIE_NINJAS_API_KEY \in AppNinjasKeys
    /\ client = AppInitClient(GEMINI_API_KEY)
    /\ uploaded_file = NoFile
    /\ pc = "idle"
    /\ caller = "main"
    /\ tmp_path = NoPath
    /\ fs = {}
    /\ created = {}
    /\ nextId = 1
    /\ uploads = 0
    /\ generations = 0
    /\ uploadOk = FALSE
    /\ networkUsed = FALSE
    /\ response = NoResponse
    /\ estimate = NoEstimate
    /\ errKind = "none"
    /\ message = "none"
    /\ escaped = FALSE

\* Inside the try block every exception goes to the except clause (line 133).
AppRaise(kind) ==
    /\ errKind' = kind
    /\ pc' = "app_except"

AppChooseFile ==
    /\ pc = "idle"
    /\ \E ext \in AppOfferedTypes, size \in OfferedSizes :
          uploaded_file' = IF ext \in AppAllowedTypes
                           THEN [present |-> TRUE, ext |-> ext, size |-> size]
                           ELSE NoFile
    /\ message' = "none"
    /\ FreshRun
    /\ UNCHANGED <<GEMINI_API_KEY, CALORIE_NINJAS_API_KEY, client, pc, caller,
                   fs, nextId, networkUsed, escaped>>

\* if st.button("Estimate calories"): ... (lines 96-101)
AppClickEstimate ==
    /\ pc = "idle"
    /\ nextId <= MaxFiles
    /\ FreshRun
    /\ IF uploaded_file = NoFile
       THEN message' = "warning" /\ UNCHANGED pc
       ELSE IF GEMINI_API_KEY \in {NoKey, ""}
               \/ CALORIE_NINJAS_API_KEY \in {NoKey, ""}
            THEN message' = "config_error" /\ UNCHANGED pc
            ELSE message' = "none" /\ pc' = "app_create"
    /\ UNCHANGED <<GEMINI_API_KEY, CALORIE_NINJAS_API_KEY, client,
                   uploaded_file, caller, fs, nextId, networkUsed, escaped>>

\* tempfile.NamedTemporaryFile(delete=False, suffix=".png") (line 104)
AppCreateTemp ==
    /\ pc = "app_create"
    /\ \/ /\ fs' = fs \cup {nextId}
          /\ created' = created \cup {nextId}
          /\ nextId' = nextId + 1
          /\ pc' = "app_write"
          /\ UNCHANGED errKind
       \/ /\ AppRaise("OSError")
          /\ UNCHANGED <<fs, created, nextId>>
    /\ UNCHANGED <<GEMINI_API_KEY, CALORIE_NINJAS_API_KEY, client,
                   uploaded_file, caller, tmp_path, uploads, generations,
                   uploadOk, networkUsed, response, estimate, message, escaped>>

\* tmp.write(uploaded_image.getbuffer()); tmp_path = tmp.name (lines 105-106)
AppWriteTemp ==
    /\ pc = "app_write"
    /\ \/ /\ tmp_path' = created
          /\ pc' = "app_upload"
          /\ UNCHANGED errKind
       \/ /\ AppRaise("OSError")
          /\ UNCHANGED tmp_path
    /\ UNCHANGED <<GEMINI_API_KEY, CALORIE_NINJAS_API_KEY, client,
                   uploaded_file, caller, fs, created, nextId, uploads,
                   generations, uploadOk, networkUsed, response, estimate,
                   message, escaped>>

\* build_food_query_from_image: client.files.upload (line 46)
AppUpload ==
    /\ pc = "app_upload"
    /\ uploads' = uploads + 1
    /\ networkUsed' = TRUE
    /\ \/ /\ uploadOk' = TRUE
          /\ pc' = "app_generate"
          /\ UNCHANGED errKind
       \/ /\ AppRaise("ProviderError")
          /\ UNCHANGED uploadOk
    /\ UNCHANGED <<GEMINI_API_KEY, CALORIE_NINJAS_API_KEY, client,
                   uploaded_file, caller, tmp_path, fs, created, nextId,
                   generations, response, estimate, message, escaped>>

\* build_food_query_from_image: client.models.generate_content (lines 48-51)
AppGenerate ==
    /\ pc = "app_generate"
    /\ generations' = generations + 1
    /\ networkUsed' = TRUE
    /\ \/ /\ \E r \in AppResponses : response' = r
          /\ pc' = "app_query"
          /\ UNCHANGED errKind
       \/ /\ AppRaise("ProviderError")
          /\ UNCHANGED response
    /\ UNCHANGED <<GEMINI_API_KEY, CALORIE_NINJAS_API_KEY, client,
                   uploaded_file, caller, tmp_path, fs, created, nextId,
                   uploads, uploadOk, estimate, message, escaped>>

\* if not query: raise RuntimeError("Gemini returned an empty query.")
\* (lines 53-56)
AppQuery ==
    /\ pc = "app_query"
    /\ IF QueryIsEmpty(response)
       THEN AppRaise("RuntimeError")
       ELSE pc' = "app_ninjas" /\ UNCHANGED errKind
    /\ UNCHANGED <<GEMINI_API_KEY, CALORIE_NINJAS_API_KEY, client,
                   uploaded_file, caller, tmp_path, fs, created, nextId,
                   uploads, generations, uploadOk, networkUsed, response,
                   estimate, message, escaped>>

\* call_calorieninjas(query) (lines 59-75): the request fails, the status is
\* not ok (RuntimeError), or the data and the total are returned.
AppCallNinjas ==
    /\ pc = "app_ninjas"
    /\ networkUsed' = TRUE
    /\ \/ pc' = "app_render" /\ UNCHANGED errKind
       \/ AppRaise("RuntimeError")
       \/ AppRaise("RequestException")
    /\ UNCHANGED <<GEMINI_API_KEY, CALORIE_NINJAS_API_KEY, client,
                   uploaded_file, caller, tmp_path, fs, created, nextId,
                   uploads, generations, uploadOk, response, estimate,
                   message, escaped>>

\* The total, the breakdown and the JSON are shown (lines 117-131); the
\* script ends: there is no finally clause and no os.remove.
AppRender ==
    /\ pc = "app_render"
    /\ \/ /\ message' = "success"
          /\ pc' = "idle"
          /\ UNCHANGED errKind
       \/ /\ AppRaise("StreamlitError")
          /\ UNCHANGED message
    /\ UNCHANGED <<GEMINI_API_KEY, CALORIE_NINJAS_API_KEY, client,
                   uploaded_file, caller, tmp_path, fs, created, nextId,
                   uploads, generations, uploadOk, networkUsed, response,
                   estimate, escaped>>

\* except Exception as e: st.error(f"Error: {e}") (lines 133-134); the
\* script ends.
AppExcept ==
    /\ pc = "app_except"
    /\ message' = "error"
    /\ pc' = "idle"
    /\ UNCHANGED <<GEMINI_API_KEY, CALORIE_NINJAS_API_KEY, client,
                   uploaded_file, caller, tmp_path, fs, created, nextId,
                   uploads, generations, uploadOk, networkUsed, response,
                   estimate, errKind, escaped>>

NextApp ==
    \/ AppChooseFile
    \/ AppClickEstimate
    \/ AppCreateTemp
    \/ AppWriteTemp
    \/ AppUpload
    \/ AppGenerate
    \/ AppQuery
    \/ AppCallNinjas
    \/ AppRender
    \/ AppExcept

SpecApp == InitApp /\ [][NextApp]_vars

(***************************************************************************)
(* Properties.                                                             *)
(***************************************************************************)
\* model_validate_json has been applied to the text of a generation call
\* that returned, in the current invocation of the estimate function.
Validated ==
    /\ generations = 1
    /\ pc \in {"render", "except", "finally", "idle"}
    /\ errKind # "ProviderError"

\* What the JSON schema sent to the provider (model_json_schema) says of a
\* body, read off the field declarations of the two classes.
RequiredItemKeys == FloatFields \cup {"name"}

RequiredMissing(b) ==
    \/ b.items.t = "absent"
    \/ \E f \in TotalFields : b[f].t = "absent"
    \/ \E i \in 1..Len(b.items.elems), f \in RequiredItemKeys :
           b.items.elems[i][f].t = "absent"

NumberWrong(v)      == v.t \notin {"num", "absent"}
StringWrong(v)      == v.t \notin {"str", "absent"}
OptionalStrWrong(v) == v.t \notin {"str", "null", "absent"}

WrongType(b) ==
    \/ b.items.t \notin {"arr", "absent"}
    \/ \E f \in TotalFields : NumberWrong(b[f])
    \/ OptionalStrWrong(b.notes)
    \/ \E i \in 1..Len(b.items.elems) :
          \/ StringWrong(b.items.elems[i].name)
          \/ \E f \in FloatFields : NumberWrong(b.items.elems[i][f])
          \/ OptionalStrWrong(b.items.elems[i].reasoning_short)

\* A number field holds a value that is neither a number nor a boolean nor a
\* string spelling a number.
NumberUnconvertible(v) ==
    /\ v.t \notin {"num", "bool", "absent"}
    /\ ~(v.t = "str" /\ v.s \in {"2", "-1"})

Unconvertible(b) ==
    \/ b.items.t \notin {"arr", "absent"}
    \/ \E f \in TotalFields : NumberUnconvertible(b[f])
    \/ OptionalStrWrong(b.notes)
    \/ \E i \in 1..Len(b.items.elems) :
          \/ StringWrong(b.items.elems[i].name)
          \/ \E f \in FloatFields : NumberUnconvertible(b.items.elems[i][f])
          \/ OptionalStrWrong(b.items.elems[i].reasoning_short)

SchemaConformant(b) == ~RequiredMissing(b) /\ ~WrongType(b)

KeyNotConfigured == GEMINI_API_KEY \in {NoKey, "", "YOUR_GEMINI_KEY_HERE"}

\* C1: once an Analyze action of app_gemini_only.main has completed, on
\* whatever exit path, no temporary file created during it exists.
C1_NoTempFileRemains ==
    pc = "idle" => created \cap fs = {}

\* C2: with no credential configured (key absent, empty or the placeholder)
\* no upload and no generation call is ever made, no temporary file is
\* written and no estimation is attempted by main; main reports the
\* configuration error and a call of the estimate function fails with it
\* before the upload.
C2_NoNetworkWithoutCredential ==
    KeyNotConfigured =>
        /\ ~networkUsed
        /\ uploads = 0 /\ generations = 0
        /\ fs = {} /\ created = {} /\ nextId = 1
        /\ estimate = NoEstimate
        /\ pc \in {"idle", "estimate"}
        /\ (pc = "estimate" => caller = "direct")
        /\ errKind \in {"none", "ValueError"}
        /\ message \in {"none", "config_error"}
        /\ (caller = "direct" /\ pc = "idle" => errKind = "ValueError")

C2_Witness ==
    /\ KeyNotConfigured
    /\ message = "config_error"
    /\ caller = "direct" /\ pc = "idle" /\ errKind = "ValueError"

C5_NonNegative ==
    estimate.ok =>
        /\ \A f \in TotalFields : estimate[f] >= 0
        /\ \A i \in 1..Len(estimate.items), f \in FloatFields :
               estimate.items[i][f] >= 0

\* C6: one invocation of estimate makes at most one upload call and at most
\* one generation call, the generation call only after the upload call has
\* returned, and no call is made again after a call has failed.
C6_SingleAttempt ==
    /\ uploads <= 1
    /\ generations <= 1
    /\ (generations = 1 \/ pc = "generate" => uploads = 1 /\ uploadOk)
    /\ (errKind = "ProviderError" => pc \in {"except", "finally", "idle"})
    /\ (uploads = 1 /\ ~uploadOk => generations = 0 /\ errKind = "ProviderError")

C6_Witness ==
    /\ pc = "idle" /\ caller = "main"
    /\ uploads = 1 /\ uploadOk
    /\ generations = 1
    /\ errKind = "ProviderError"
    /\ message = "error"

\* C7: a generation response whose text is empty or absent ends estimate
\* with the provider error, and a text that is present but does not conform
\* ends it with the validation error, a different kind.
C7_ProviderErrorKind ==
    generations = 1 /\ pc \in {"except", "finally", "idle"} =>
        /\ (response.kind \in {"none", "empty"} => errKind = "ProviderError")
        /\ (response.kind = "text" => errKind = "ValidationError")

C10_AppTempFileReleased ==
    pc = "idle" /\ message \in {"success", "error"} => created \cap fs = {}

=============================================================================
